---- MODULE Spec2Model ----
(***************************************************************************)
(* Model of nba_stats.py: the NBAData retrieval layer, the StatFormula     *)
(* computation and the interactive driver main().                          *)
(*                                                                         *)
(* Representation.                                                         *)
(*  - A Python str is a sequence of one-character strings, so that         *)
(*    strip(), lower(), upper(), title(), int() and float() are computed.  *)
(*  - A float is a record [nan, v]; game values and thresholds are whole   *)
(*    numbers, career averages are in tenths and StatFormula results in    *)
(*    hundredths (round(x, 1) and round(x, 2)).                            *)
(*  - A DataFrame is [cols, rows]: a set of column names and a sequence of *)
(*    rows, each a function from column name to cell.                      *)
(*  - The outcome of a call is [ok, value, exc]; exc is [type, msg, cause],  *)
(*    cause being the type of the exception a RuntimeError was built from. *)
(***************************************************************************)
EXTENDS Integers, Sequences, FiniteSets, TLC

VARIABLES
    pc,       \* position of main(): the statement about to run
    argv,     \* the namespace parse_args returned (never written again)
    args,     \* the same namespace as main() mutates it
    player,   \* the NBAData object: [name, player_id, is_active]
    recent,   \* the table returned by get_recent_games
    predictor,\* the StatFormula object main() builds
    exc,      \* the exception propagating out of the try body, if any
    out,      \* lines printed so far
    prompts,  \* input() prompts issued so far
    line,     \* the last line input() returned
    api,      \* external nba_api calls made so far
    tries,    \* iterations of the games-prompt loop taken so far
    call      \* the single direct call made in the component harness

vars == <<pc, argv, args, player, recent, predictor, exc, out, prompts, api, tries, call>>

\* None is a record, like every value it stands in for: TLC compares records
\* with different fields, and refuses to compare a record with a string.
None == [none |-> TRUE]
\* A namespace attribute argparse or main() has set.
Some(v) == [some |-> v]

\* ------------------------------------------------------------------ bounds
MaxNameLen == 3
MaxLog == 11
MaxDriverLog == 3
MaxRows == 8
MaxTries == 1

\* ----------------------------------------------------------------- strings
LOWERS == <<"a","b","c","d","e","f","g","h","i","j","k","l","m",
            "n","o","p","q","r","s","t","u","v","w","x","y","z">>
UPPERS == <<"A","B","C","D","E","F","G","H","I","J","K","L","M",
            "N","O","P","Q","R","S","T","U","V","W","X","Y","Z">>
DIGITS == <<"0","1","2","3","4","5","6","7","8","9">>
WHITESPACE == {" ", "\t", "\n"}

IndexOf(s, c) == CHOOSE i \in 1..Len(s) : s[i] = c
Occurs(s, c) == \E i \in 1..Len(s) : s[i] = c
IsCased(c) == Occurs(LOWERS, c) \/ Occurs(UPPERS, c)
LowerChar(c) == IF Occurs(UPPERS, c) THEN LOWERS[IndexOf(UPPERS, c)] ELSE c
UpperChar(c) == IF Occurs(LOWERS, c) THEN UPPERS[IndexOf(LOWERS, c)] ELSE c

\* str.lower(), str.upper()
Lower(s) == [i \in 1..Len(s) |-> LowerChar(s[i])]
Upper(s) == [i \in 1..Len(s) |-> UpperChar(s[i])]

\* str.title(): a cased character is upper-cased when the character before it
\* is not cased, and lower-cased otherwise.
Title(s) ==
    [i \in 1..Len(s) |->
        IF i > 1 /\ IsCased(s[i-1]) THEN LowerChar(s[i]) ELSE UpperChar(s[i])]

\* str.strip(): leading and trailing whitespace removed.
Strip(s) ==
    LET keep == {i \in 1..Len(s) : s[i] \notin WHITESPACE}
    IN  IF keep = {} THEN <<>>
        ELSE LET lo == CHOOSE i \in keep : \A j \in keep : i <= j
                 hi == CHOOSE i \in keep : \A j \in keep : j <= i
             IN  SubSeq(s, lo, hi)

RECURSIVE DigitsValue(_)
DigitsValue(s) ==
    IF s = <<>> THEN 0
    ELSE 10 * DigitsValue(SubSeq(s, 1, Len(s) - 1)) + (IndexOf(DIGITS, s[Len(s)]) - 1)

AllDigits(s) == s # <<>> /\ \A i \in 1..Len(s) : Occurs(DIGITS, s[i])

Ok(v) == [ok |-> TRUE, value |-> v, exc |-> None]
Raise(type, msg) ==
    [ok |-> FALSE, value |-> None, exc |-> [type |-> type, msg |-> msg, cause |-> ""]]

\* int(str): surrounding whitespace ignored, an optional sign, then decimal
\* digits; anything else is a ValueError.
ParseInt(s) ==
    LET t == Strip(s)
        signed == t # <<>> /\ t[1] \in {"+", "-"}
        body == IF signed THEN Tail(t) ELSE t
    IN  IF AllDigits(body)
        THEN Ok(IF signed /\ t[1] = "-" THEN 0 - DigitsValue(body) ELSE DigitsValue(body))
        ELSE Raise("ValueError", "invalid literal for int()")

\* ------------------------------------------------------------------ floats
NaN == [nan |-> TRUE, v |-> 0]
Num(v) == [nan |-> FALSE, v |-> v]

\* float(str) on the literals the model enters: whole numbers, with sign and
\* surrounding whitespace, and "nan" in any case; anything else is a ValueError.
ParseFloat(s) ==
    LET t == Strip(s)
        signed == t # <<>> /\ t[1] \in {"+", "-"}
        body == IF signed THEN Tail(t) ELSE t
    IN  IF AllDigits(body)
        THEN Ok(Num(IF signed /\ t[1] = "-" THEN 0 - DigitsValue(body) ELSE DigitsValue(body)))
        ELSE IF Lower(body) = <<"n","a","n">> THEN Ok(NaN)
        ELSE Raise("ValueError", "could not convert string to float")

\* round(num / den, d) for num >= 0, den > 0, as an integer count of 10^-d
\* (scale = 10^d): to nearest, a tie going to the even neighbour.  The quotient
\* is exact here; the error of binary floating point is not modelled.
RoundDiv(num, den, scale) ==
    LET q == (scale * num) \div den
        r == (scale * num) % den
    IN  IF 2 * r > den THEN q + 1
        ELSE IF 2 * r < den THEN q
        ELSE IF q % 2 = 0 THEN q ELSE q + 1

RECURSIVE SumSeq(_)
SumSeq(s) == IF s = <<>> THEN 0 ELSE Head(s) + SumSeq(Tail(s))

\* --------------------------------------------------------------- constants
PTS == <<"P","T","S">>
AST == <<"A","S","T">>
REB == <<"R","E","B">>
BLK == <<"B","L","K">>
STL == <<"S","T","L">>
GAME_DATE == <<"G","A","M","E","_","D","A","T","E">>
MIN == <<"M","I","N">>

VALID_STATS == <<PTS, AST, REB, BLK, STL>>

\* A substring test, which the empty entry passes.
is_valid_stat_substring(stat) == stat = <<>> \/ Occurs(VALID_STATS, Upper(stat))

\* is_valid_stat(stat)
is_valid_stat(stat) == Occurs(VALID_STATS, Upper(stat))

\* ------------------------------------------------------------ collections
Get(row, key, default) == IF key \in DOMAIN row THEN row[key] ELSE default
Bool(v) == v # 0
Empty(df) == df.rows = <<>> \/ df.cols = {}
\* The last n rows instead of the first n.
HeadN_tail(s, n) == SubSeq(s, IF Len(s) < n THEN 1 ELSE Len(s) - n + 1, Len(s))
HeadN(s, n) == SubSeq(s, 1, IF Len(s) < n THEN Len(s) ELSE n)

\* An except-Exception clause that raises RuntimeError(f"<msg>: {e}").
Wrap(body, msg) ==
    IF body.ok THEN body
    ELSE [ok |-> FALSE, value |-> None,
          exc |-> [type |-> "RuntimeError", msg |-> msg, cause |-> body.exc.type]]

\* ----------------------------------------------------------------- NBAData
\* lookup_player_id: resp is what players.get_players() does, [fail, players].
lookup_player_id(name, resp) ==
    LET match == SelectSeq(resp.players, LAMBDA p : Lower(p.full_name) = Lower(name))
        body == IF resp.fail THEN Raise("Exception", "get_players failed")
                ELSE IF match # <<>> THEN Ok(match[1].id)
                ELSE Raise("ValueError", "Player not found in NBA API")
    IN  Wrap(body, "Error looking up player ID")

\* check_if_active: resp is what CommonPlayerInfo(...).get_data_frames()[0].loc[0]
\* does, [fail, row].
check_if_active(resp) ==
    LET body == IF resp.fail THEN Raise("Exception", "CommonPlayerInfo failed")
                ELSE Ok(Bool(Get(resp.row, "ROSTERSTATUS", 0)))
    IN  Wrap(body, "Error checking active status")

\* get_player_profile
get_player_profile(name, resp) ==
    LET body == IF resp.fail THEN Raise("Exception", "CommonPlayerInfo failed")
                ELSE Ok([Name      |-> name,
                         Weight    |-> Get(resp.row, "WEIGHT", "N/A"),
                         Team      |-> Get(resp.row, "TEAM_NAME", "N/A"),
                         Position  |-> Get(resp.row, "POSITION", "N/A"),
                         Height    |-> Get(resp.row, "HEIGHT", "N/A"),
                         From_Year |-> Get(resp.row, "FROM_YEAR", "N/A"),
                         To_Year   |-> Get(resp.row, "TO_YEAR", "N/A")])
    IN  Wrap(body, "Error retrieving player profile")

GP == <<"G","P">>
StatCols == {VALID_STATS[i] : i \in 1..Len(VALID_STATS)}

\* get_career_averages: resp is what PlayerCareerStats(...).get_data_frames()[1]
\* does, [fail, df]; the averages are in tenths.
get_career_averages(resp) ==
    LET df == resp.df
        gp == df.rows[1][GP]
        body == IF resp.fail THEN Raise("Exception", "PlayerCareerStats failed")
                ELSE IF Empty(df) \/ df.rows[1][GP] = 0 THEN Ok(<<>>)
                ELSE Ok([c \in StatCols |-> RoundDiv(df.rows[1][c], gp, 10)])
    IN  Wrap(body, "Error retrieving career averages")

\* pd.to_numeric(cell, errors='coerce')
to_numeric(cell) == IF cell.numeric THEN Num(cell.v) ELSE NaN

RecentCols == {GAME_DATE} \cup StatCols

\* The try body of get_recent_games, lines 95-102.
get_recent_games_body(name, season, num_games, resp) ==
    IF resp.fail THEN Raise("Exception", "PlayerGameLog failed")
    ELSE IF Empty(resp.df)
         THEN Raise("ValueError", "No game log data available")
    ELSE IF ~(RecentCols \subseteq resp.df.cols)
         THEN Raise("KeyError", "not in index")
    ELSE LET picked == HeadN(resp.df.rows, num_games)
         IN  Ok([cols |-> RecentCols,
                 rows |-> [i \in 1..Len(picked) |->
                              [c \in RecentCols |->
                                  IF c = GAME_DATE THEN picked[i][c]
                                  ELSE to_numeric(picked[i][c])]]])

\* The activity test left out.
get_recent_games_unchecked(self, season, num_games, resp) ==
    [res |-> Wrap(get_recent_games_body(self.name, season, num_games, resp),
                  "Error retrieving recent games"),
     called |-> TRUE]

\* get_recent_games: self is [name, player_id, is_active]; resp is what
\* PlayerGameLog(...).get_data_frames()[0] does, [fail, df].  The outcome also
\* says whether the external game-log call was made.
get_recent_games(self, season, num_games, resp) ==
    IF ~self.is_active
    THEN [res |-> Raise("ValueError", "is not an active player"),
          called |-> FALSE]
    ELSE [res |-> Wrap(get_recent_games_body(self.name, season, num_games, resp),
                       "Error retrieving recent games"),
          called |-> TRUE]

\* ------------------------------------------------------------- StatFormula
\* StatFormula.__init__
StatFormula(data, stat, threshold) ==
    [data |-> data, stat |-> Upper(stat), threshold |-> threshold]

\* values >= threshold, elementwise: False when either side is NaN.
GreaterEq(x, t) == ~x.nan /\ ~t.nan /\ x.v >= t.v

\* The count divided by the number of rows that hold a value.
threshold_ratio_dropna(values, threshold) ==
    LET count == Len(SelectSeq(values, LAMBDA x : GreaterEq(x, threshold)))
        present == Len(SelectSeq(values, LAMBDA x : ~x.nan))
    IN  IF present = 0 THEN NaN ELSE Num(RoundDiv(count, present, 100))

\* (values >= threshold).sum() / len(values), rounded to 2 places: a numpy
\* integer divided by zero is nan (with a RuntimeWarning), not an exception.
threshold_ratio(values, threshold) ==
    LET count == Len(SelectSeq(values, LAMBDA x : GreaterEq(x, threshold)))
    IN  IF Len(values) = 0 THEN NaN
        ELSE Num(RoundDiv(count, Len(values), 100))

\* round(values.mean(), 2): the mean skips NaN and is nan when nothing is left.
mean_rounded(values) ==
    LET present == SelectSeq(values, LAMBDA x : ~x.nan)
    IN  IF present = <<>> THEN NaN
        ELSE Num(RoundDiv(SumSeq([i \in 1..Len(present) |-> present[i].v]),
                          Len(present), 100))

\* StatFormula.compute; the result is in hundredths.
compute(self) ==
    IF self.stat \notin self.data.cols
    THEN Raise("ValueError", "Stat not found in game data")
    ELSE LET values == [i \in 1..Len(self.data.rows) |-> self.data.rows[i][self.stat]]
         IN  IF self.threshold # None
             THEN Ok(threshold_ratio(values, self.threshold))
             ELSE Ok(mean_rounded(values))

\* ------------------------------------------------- the external collaborator
SeqsUpTo(S, n) == UNION {[1..k -> S] : k \in 0..n}

\* players.get_players(): the static directory, or a failure.  Two entries
\* differ only in case, so that "the first match" is visible.
Directory ==
    << [full_name |-> <<"A"," ","b">>, id |-> 1],
       [full_name |-> <<"B","a">>,     id |-> 2],
       [full_name |-> <<"a"," ","B">>, id |-> 3] >>
DirectoryResponses ==
    {[fail |-> FALSE, players |-> Directory], [fail |-> TRUE, players |-> <<>>]}

\* CommonPlayerInfo: the first row of the first frame, or a failure.
InfoRows ==
    { [ROSTERSTATUS |-> 1, TEAM_NAME |-> "Lakers", POSITION |-> "Forward",
       HEIGHT |-> "6-9", WEIGHT |-> "250", FROM_YEAR |-> "2003", TO_YEAR |-> "2024"],
      [ROSTERSTATUS |-> 0, TEAM_NAME |-> "Bulls", POSITION |-> "Guard",
       HEIGHT |-> "6-6", WEIGHT |-> "216", FROM_YEAR |-> "1984", TO_YEAR |-> "2002"],
      [POSITION |-> "Center", HEIGHT |-> "7-1"] }
InfoResponses ==
    {[fail |-> FALSE, row |-> r] : r \in InfoRows} \cup {[fail |-> TRUE, row |-> <<>>]}

\* PlayerCareerStats: the career-totals frame, or a failure.
CareerCols == {GP} \cup StatCols
CareerRow(gp, pts) ==
    [c \in CareerCols |-> IF c = GP THEN gp ELSE IF c = PTS THEN pts ELSE gp + 1]
CareerResponses ==
    { [fail |-> FALSE, df |-> [cols |-> CareerCols, rows |-> <<>>]],
      [fail |-> FALSE, df |-> [cols |-> CareerCols, rows |-> <<CareerRow(0, 0)>>]],
      [fail |-> FALSE, df |-> [cols |-> CareerCols, rows |-> <<CareerRow(8, 217)>>]],
      [fail |-> TRUE,  df |-> [cols |-> {}, rows |-> <<>>]] }

\* PlayerGameLog: the season's frame, or a failure.  A cell is [numeric, v]:
\* a number, or something to_numeric cannot parse.
Cell(v) == [numeric |-> TRUE, v |-> v]
Unparseable == [numeric |-> FALSE, v |-> 0]
ApiCols == RecentCols \cup {MIN}
RawRowKinds ==
    << [c \in StatCols \cup {MIN} |-> IF c = PTS THEN Cell(30) ELSE Cell(4)],
       [c \in StatCols \cup {MIN} |-> IF c = PTS THEN Unparseable ELSE Cell(7)] >>
\* The frame whose i-th row is of kind ks[i]; the dates run most recent first.
MakeLog(kinds, ks, cols) ==
    [cols |-> cols,
     rows |-> [i \in 1..Len(ks) |->
                 [c \in cols |-> IF c = GAME_DATE THEN Len(ks) - i + 1
                                 ELSE kinds[ks[i]][c]]]]
GameLogResponses(n) ==
    {[fail |-> FALSE, df |-> MakeLog(RawRowKinds, ks, ApiCols)] :
        ks \in SeqsUpTo(1..Len(RawRowKinds), n)}
    \cup {[fail |-> FALSE, df |-> MakeLog(RawRowKinds, <<1>>, ApiCols \ {STL})],
          [fail |-> TRUE,  df |-> [cols |-> {}, rows |-> <<>>]]}
Seasons == {"2024-25", "2023-24"}

\* ------------------------------------------------------ component harness
\* Each operation of NBAData and StatFormula called once, directly, on inputs
\* drawn from bounded sets.
NameChars == {"a", "A", "b", " "}
Names == SeqsUpTo(NameChars, MaxNameLen)

RowKinds ==
    << [c \in StatCols |-> IF c = PTS THEN Num(30) ELSE Num(4)],
       [c \in StatCols |-> IF c = PTS THEN Num(20) ELSE Num(7)],
       [c \in StatCols |-> IF c = PTS THEN NaN ELSE Num(7)] >>
Tables == {MakeLog(RowKinds, ks, RecentCols) : ks \in SeqsUpTo(1..Len(RowKinds), MaxRows)}
HarnessStats == {PTS, <<"a","s","t">>, <<"X","Y","Z">>}
HarnessThresholds == {None, Num(20), NaN}

Idle == [op |-> "none"]

HarnessLookup ==
    /\ pc = "Idle" /\ call = Idle
    /\ \E input \in Names, resp \in DirectoryResponses :
          call' = [op |-> "lookup_player_id", input |-> input, name |-> Title(input),
                   resp |-> resp, result |-> lookup_player_id(Title(input), resp)]
    /\ UNCHANGED <<pc, argv, args, player, recent, predictor, exc, out, prompts, line, api, tries>>

HarnessRecentGames ==
    /\ pc = "Idle" /\ call = Idle
    /\ \E active \in BOOLEAN, season \in Seasons, num_games \in {5, 10},
          resp \in GameLogResponses(MaxLog) :
          LET self == [name |-> <<"A"," ","B">>, player_id |-> 1, is_active |-> active]
          IN  call' = [op |-> "get_recent_games", self |-> self, season |-> season,
                       num_games |-> num_games, resp |-> resp,
                       result |-> get_recent_games(self, season, num_games, resp)]
    /\ UNCHANGED <<pc, argv, args, player, recent, predictor, exc, out, prompts, line, api, tries>>

HarnessCompute ==
    /\ pc = "Idle" /\ call = Idle
    /\ \E data \in Tables, stat \in HarnessStats, threshold \in HarnessThresholds :
          LET self == StatFormula(data, stat, threshold)
          IN  call' = [op |-> "compute", self |-> self, result |-> compute(self)]
    /\ UNCHANGED <<pc, argv, args, player, recent, predictor, exc, out, prompts, line, api, tries>>

HarnessInit ==
    /\ call = Idle
    /\ pc = "Idle"
    /\ argv = None /\ args = None /\ player = None /\ recent = None
    /\ predictor = None /\ exc = None
    /\ out = <<>> /\ prompts = <<>> /\ line = None /\ api = <<>> /\ tries = 0

HarnessNext == HarnessLookup \/ HarnessRecentGames \/ HarnessCompute

\* -------------------------------------------------------------- parse_args
\* The namespaces parse_args can return: --stat is one of VALID_STATS, --games
\* one of 5 and 10, --threshold a float, each None when the flag is absent.
CliPlayers == {None, Some(<<"a"," ","b">>)}
CliStats == {None, Some(PTS)}
CliThresholds == {None, Some(Num(25))}
CliGames == {None, Some(5), Some(10)}
Namespaces ==
    [player : CliPlayers, stat : CliStats, threshold : CliThresholds,
     games : CliGames, season : {"2024-25"}]

\* Python truthiness of a namespace attribute: None, "" and 0 are false.
TruthyStr(attr) == attr # None /\ attr.some # <<>>
TruthyInt(attr) == attr # None /\ attr.some # 0

\* ------------------------------------------------------------------- input
\* input(prompt): a line the user types, or EOFError at end of input.
Typed(entries) ==
    {Ok(e) : e \in entries} \cup {Raise("EOFError", "EOF when reading a line")}
NameEntries == {<<"a"," ","b">>, <<"z">>}
ProceedEntries ==
    {<<"y","e","s">>, <<"Y","e","s">>, <<" ","Y","E","S"," ">>, <<"n","o">>,
     <<"y">>, <<>>, <<"y","e","s","!">>}
GamesEntries == {<<"5">>, <<" ","1","0">>, <<"7">>, <<"f","i","v","e">>}
StatEntries == {<<"p","t","s">>, <<" ","A","S","T"," ">>, <<"F","G","M">>, <<>>}
ThresholdEntries == {<<"2","5">>, <<"a","b","c">>, <<>>}

\* --------------------------------------------------------------------- main
\* The exception swallowed: the run ends and nothing is printed.
Throw_swallow(e) == pc' = "Done" /\ exc' = e

\* A statement of the try body raised e: control goes to the except clause.
Throw(e) == pc' = "Except" /\ exc' = e

\* Lines 142-143.
CollectIdentity ==
    /\ pc = "CollectIdentity"
    /\ IF TruthyStr(args.player)
       THEN /\ pc' = "Lookup"
            /\ UNCHANGED <<args, prompts, line, exc>>
       ELSE /\ prompts' = Append(prompts, "player")
            /\ \E typed \in Typed(NameEntries) :
                  IF typed.ok
                  THEN /\ args' = [args EXCEPT !.player = Some(typed.value)]
                       /\ line' = Some(typed.value)
                       /\ pc' = "Lookup"
                       /\ UNCHANGED exc
                  ELSE Throw(typed.exc) /\ UNCHANGED <<args, line>>
    /\ UNCHANGED <<argv, player, recent, predictor, out, api, tries, call>>

\* Line 145, NBAData.__init__ lines 18-19.
Lookup ==
    /\ pc = "Lookup"
    /\ api' = Append(api, "get_players")
    /\ \E resp \in DirectoryResponses :
          LET name == Title(args.player.some)
              r == lookup_player_id(name, resp)
          IN  IF r.ok
              THEN /\ player' = [name |-> name, player_id |-> r.value]
                   /\ pc' = "CheckActive"
                   /\ UNCHANGED exc
              ELSE Throw(r.exc) /\ UNCHANGED player
    /\ UNCHANGED <<argv, args, recent, predictor, out, prompts, tries, line, call>>

\* NBAData.__init__ line 20.
CheckActive ==
    /\ pc = "CheckActive"
    /\ api' = Append(api, "CommonPlayerInfo")
    /\ \E resp \in InfoResponses :
          LET r == check_if_active(resp)
          IN  IF r.ok
              THEN /\ player' = [name |-> player.name, player_id |-> player.player_id,
                                 is_active |-> r.value]
                   /\ pc' = "Profile"
                   /\ UNCHANGED exc
              ELSE Throw(r.exc) /\ UNCHANGED player
    /\ UNCHANGED <<argv, args, recent, predictor, out, prompts, tries, line, call>>

\* Lines 147-148: the heading, then print(player), which is __str__.
Profile ==
    /\ pc = "Profile"
    /\ api' = Append(api, "CommonPlayerInfo")
    /\ \E resp \in InfoResponses :
          LET r == get_player_profile(player.name, resp)
              heading == [kind |-> "CareerHeading", name |-> player.name]
          IN  IF r.ok
              THEN /\ out' = out \o <<heading, [kind |-> "Profile", profile |-> r.value]>>
                   /\ pc' = "Career"
                   /\ UNCHANGED exc
              ELSE /\ out' = Append(out, heading)
                   /\ Throw(r.exc)
    /\ UNCHANGED <<argv, args, player, recent, predictor, prompts, tries, line, call>>

\* Lines 150-155.
Career ==
    /\ pc = "Career"
    /\ api' = Append(api, "PlayerCareerStats")
    /\ \E resp \in CareerResponses :
          LET r == get_career_averages(resp)
          IN  IF r.ok
              THEN /\ out' = IF DOMAIN r.value # {}
                             THEN out \o [i \in 1..Len(VALID_STATS) |->
                                            [kind |-> "CareerStat", stat |-> VALID_STATS[i],
                                             val |-> r.value[VALID_STATS[i]]]]
                             ELSE Append(out, [kind |-> "NoCareerData"])
                   /\ pc' = "Branch"
                   /\ UNCHANGED exc
              ELSE Throw(r.exc) /\ UNCHANGED out
    /\ UNCHANGED <<argv, args, player, recent, predictor, prompts, tries, line, call>>

\* Lines 192-193: the player is not active.
InactiveNotice ==
    /\ pc = "Branch"
    /\ ~player.is_active
    /\ out' = IF TruthyStr(args.stat)
              THEN Append(out, [kind |-> "RetiredNote", name |-> player.name])
              ELSE out
    /\ pc' = "Done"
    /\ UNCHANGED <<argv, args, player, recent, predictor, exc, prompts, api, tries, line, call>>

\* The run ends on "no" only.
Proceeds_unless_no(answer) == Lower(Strip(answer)) # <<"n","o">>

\* proceed = input(...).strip().lower(); proceed != 'yes' returns.
Proceeds(answer) == Lower(Strip(answer)) = <<"y","e","s">>

\* Lines 157-160.
Decide ==
    /\ pc = "Branch"
    /\ player.is_active
    /\ prompts' = Append(prompts, "proceed")
    /\ \E typed \in Typed(ProceedEntries) :
          IF typed.ok
          THEN /\ line' = Some(typed.value)
               /\ pc' = IF Proceeds(typed.value) THEN "CollectGames" ELSE "Done"
               /\ UNCHANGED exc
          ELSE Throw(typed.exc) /\ UNCHANGED line
    /\ UNCHANGED <<argv, args, player, recent, predictor, out, api, tries, call>>

\* Line 162.
CollectGames ==
    /\ pc = "CollectGames"
    /\ pc' = IF TruthyInt(args.games) THEN "CollectStat" ELSE "PromptGames"
    /\ UNCHANGED <<argv, args, player, recent, predictor, exc, out, prompts, api, tries, line, call>>

\* args.games in [5, 10]
GamesAccepted(games) == games \in {5, 10}

\* Lines 163-171: one iteration of the while loop.  An entry that is refused
\* is typed at most MaxTries times.
PromptGames ==
    /\ pc = "PromptGames"
    /\ prompts' = Append(prompts, "games")
    /\ \E typed \in Typed(GamesEntries) :
          IF ~typed.ok
          THEN Throw(typed.exc) /\ UNCHANGED <<args, out, tries, line>>
          ELSE LET n == ParseInt(typed.value)
               IN  /\ line' = Some(typed.value)
                   /\ IF ~n.ok
                      THEN /\ tries < MaxTries
                           /\ out' = Append(out, [kind |-> "InvalidInput"])
                           /\ tries' = tries + 1
                           /\ UNCHANGED <<pc, args, exc>>
                      ELSE IF GamesAccepted(n.value)
                      THEN /\ args' = [args EXCEPT !.games = Some(n.value)]
                           /\ pc' = "CollectStat"
                           /\ UNCHANGED <<exc, out, tries>>
                      ELSE /\ tries < MaxTries
                           /\ args' = [args EXCEPT !.games = Some(n.value)]
                           /\ out' = Append(out, [kind |-> "EnterFiveOrTen"])
                           /\ tries' = tries + 1
                           /\ UNCHANGED <<pc, exc>>
    /\ UNCHANGED <<argv, player, recent, predictor, api, call>>

\* Lines 173-175.
CollectStat ==
    /\ pc = "CollectStat"
    /\ prompts' = Append(prompts, "stat")
    /\ \E typed \in Typed(StatEntries) :
          IF ~typed.ok
          THEN Throw(typed.exc) /\ UNCHANGED <<args, line>>
          ELSE LET stat == Upper(Strip(typed.value))
               IN  /\ line' = Some(typed.value)
                   /\ args' = [args EXCEPT !.stat = Some(stat)]
                   /\ IF is_valid_stat(stat)
                      THEN pc' = "CollectThreshold" /\ UNCHANGED exc
                      ELSE Throw(Raise("ValueError", "is not a valid stat").exc)
    /\ UNCHANGED <<argv, player, recent, predictor, out, api, tries, call>>

\* Lines 176-179.
CollectThreshold ==
    /\ pc = "CollectThreshold"
    /\ prompts' = Append(prompts, "threshold")
    /\ \E typed \in Typed(ThresholdEntries) :
          IF ~typed.ok
          THEN Throw(typed.exc) /\ UNCHANGED <<args, line>>
          ELSE LET x == ParseFloat(typed.value)
               IN  /\ line' = Some(typed.value)
                   /\ args' = [args EXCEPT !.threshold = IF x.ok THEN Some(x.value) ELSE None]
                   /\ pc' = "FetchRecent"
                   /\ UNCHANGED exc
    /\ UNCHANGED <<argv, player, recent, predictor, out, api, tries, call>>

\* Lines 181-183.
FetchRecent ==
    /\ pc = "FetchRecent"
    /\ \E resp \in GameLogResponses(MaxDriverLog) :
          LET r == get_recent_games(player, args.season, args.games.some, resp)
          IN  /\ api' = IF r.called THEN Append(api, "PlayerGameLog") ELSE api
              /\ IF r.res.ok
                 THEN /\ recent' = r.res.value
                      /\ out' = out \o <<[kind |-> "RecentHeading", games |-> args.games.some],
                                         [kind |-> "RecentTable", table |-> r.res.value]>>
                      /\ pc' = "Predict"
                      /\ UNCHANGED exc
                 ELSE Throw(r.res.exc) /\ UNCHANGED <<recent, out>>
    /\ UNCHANGED <<argv, args, player, predictor, prompts, tries, line, call>>

\* Lines 185-190.
Predict ==
    /\ pc = "Predict"
    /\ LET threshold == IF args.threshold = None THEN None ELSE args.threshold.some
           self == StatFormula(recent, args.stat.some, threshold)
           r == compute(self)
       IN  /\ predictor' = self
           /\ IF r.ok
              THEN /\ out' = Append(out,
                        IF threshold # None
                        THEN [kind |-> "Prediction", name |-> player.name, pct |-> r.value,
                              threshold |-> threshold, stat |-> self.stat]
                        ELSE [kind |-> "Average", stat |-> self.stat,
                              games |-> args.games.some, value |-> r.value])
                   /\ pc' = "Done"
                   /\ UNCHANGED exc
              ELSE Throw(r.exc) /\ UNCHANGED out
    /\ UNCHANGED <<argv, args, player, recent, prompts, api, tries, line, call>>

\* Lines 195-196: except Exception as e: print(f"\nError: {e}"), and main returns.
Except ==
    /\ pc = "Except"
    /\ out' = Append(out, [kind |-> "Error", e |-> exc])
    /\ pc' = "Done"
    /\ UNCHANGED <<argv, args, player, recent, predictor, exc, prompts, api, tries, line, call>>

MainInit ==
    /\ pc = "CollectIdentity"
    /\ argv \in Namespaces
    /\ args = argv
    /\ player = None /\ recent = None /\ predictor = None /\ exc = None
    /\ out = <<>> /\ prompts = <<>> /\ line = None /\ api = <<>> /\ tries = 0
    /\ call = Idle

MainNext ==
    \/ CollectIdentity
    \/ Lookup
    \/ CheckActive
    \/ Profile
    \/ Career
    \/ InactiveNotice
    \/ Decide
    \/ CollectGames
    \/ PromptGames
    \/ CollectStat
    \/ CollectThreshold
    \/ FetchRecent
    \/ Predict
    \/ Except

\* A run is either one run of main() or one direct call of a component.
Init == MainInit \/ HarnessInit
Next == MainNext \/ HarnessNext
Spec == Init /\ [][Next]_vars

\* ================================================================ properties
InMain == pc # "Idle"
Kinds(k) == {i \in 1..Len(out) : out[i].kind = k}
Said(p) == \E i \in 1..Len(prompts) : prompts[i] = p
Called(a) == \E i \in 1..Len(api) : api[i] = a
Min(a, b) == IF a < b THEN a ELSE b
Abs(x) == IF x < 0 THEN 0 - x ELSE x
Reversed(df) ==
    [cols |-> df.cols, rows |-> [i \in 1..Len(df.rows) |-> df.rows[Len(df.rows) + 1 - i]]]
YES == <<"y","e","s">>

\* ------------------------------------------------------------------------ C1
C1_Handled ==
    InMain =>
      /\ exc = None => Kinds("Error") = {} /\ pc # "Except"
      /\ pc = "Except" => exc # None /\ Kinds("Error") = {}
      /\ (exc # None /\ pc # "Except") =>
            /\ pc = "Done"
            /\ Cardinality(Kinds("Error")) = 1
            /\ out[Len(out)] = [kind |-> "Error", e |-> exc]
C1_NothingAfter ==
    exc # None =>
        /\ pc' = "Done"
        /\ out' = Append(out, [kind |-> "Error", e |-> exc])
        /\ UNCHANGED <<args, player, recent, predictor, exc, prompts, line, api>>

\* C1: an exception that leaves a step of main() (the directory lookup, the
\* active check, the profile, the career averages, a prompt, the recent-games
\* fetch, compute) is caught by the except clause: exactly one Error line is
\* printed, it is the last line and carries that exception, no other step runs
\* after the raise, and main() returns: nothing happens after Done.
C1_ErrorsCaughtOnce ==
    /\ []C1_Handled
    /\ [][C1_NothingAfter]_vars
    /\ [][pc # "Done"]_vars

\* The empty game log made get_recent_games raise, after the game-log call.
C1_Witness ==
    /\ pc = "Done" /\ exc # None
    /\ exc.type = "RuntimeError" /\ exc.cause = "ValueError"
    /\ Called("PlayerGameLog")
    /\ out[Len(out)].kind = "Error"

\* ------------------------------------------------------------------------ C2
\* C2: a parameter is prompted for only when its flag is absent, and a --stat
\* or --threshold given on the command line is the value StatFormula gets.
C2_FlagsSuppressPrompts ==
    InMain =>
      /\ Said("player") => argv.player = None
      /\ Said("games") => argv.games = None
      /\ Said("stat") => argv.stat = None
      /\ Said("threshold") => argv.threshold = None
      /\ (predictor # None /\ argv.stat # None) => predictor.stat = argv.stat.some
      /\ (predictor # None /\ argv.threshold # None) =>
            predictor.threshold = argv.threshold.some

\* ------------------------------------------------------------------------ C3
AnsweredProceed ==
    InMain /\ prompts # <<>> /\ prompts[Len(prompts)] = "proceed" /\ exc = None
Declined ==
    /\ pc = "Done"
    /\ ~Called("PlayerGameLog")
    /\ recent = None /\ predictor = None
    /\ Kinds("Prediction") \cup Kinds("Average") \cup Kinds("Error") = {}
    /\ ~Said("games") /\ ~Said("stat") /\ ~Said("threshold")

\* C3 as stated: the confirmation is asked of an active player only, and any
\* answer other than "yes", compared case-insensitively, ends the run with no
\* further prompt, no game-log call, no compute and no prediction or Error line.
C3_AnyOtherAnswerEndsRun ==
    /\ (InMain /\ Said("proceed")) => player.is_active
    /\ (AnsweredProceed /\ Lower(line.some) # YES) => Declined

C3_Stripped ==
    /\ (InMain /\ Said("proceed")) => player.is_active
    /\ (AnsweredProceed /\ Lower(Strip(line.some)) # YES) => Declined
    /\ (AnsweredProceed /\ Lower(Strip(line.some)) = YES) => pc # "Done"

\* C3 amended: the confirmation is asked of an active player only, and any
\* answer that, with surrounding whitespace removed, is other than "yes"
\* case-insensitively ends the run with no further prompt, no game-log call,
\* no compute and no prediction or Error line; "yes" surrounded by whitespace
\* goes on to the prediction.
C3_DeclineEndsRun ==
    /\ []C3_Stripped
    /\ [][pc # "Done"]_vars

C3_Witness ==
    /\ AnsweredProceed
    /\ line = Some(<<"y","e","s","!">>)
    /\ pc = "Done"
    /\ Kinds("Profile") # {}

\* ------------------------------------------------------------------------ C4
Fetching ==
    pc \in {"FetchRecent", "Predict"} \/ Called("PlayerGameLog")
       \/ recent # None \/ predictor # None
LastPrompt(p) == InMain /\ prompts # <<>> /\ prompts[Len(prompts)] = p
ReadLine == exc = None \/ exc.type # "EOFError"

\* C4: when main() reaches the recent-games fetch, and so compute, the game
\* count is 5 or 10 and the stat is one of VALID_STATS; a game-count entry that
\* is refused leaves main() at the games prompt; a stat entry that is refused
\* raises at once: the stat prompt is issued once, no game-log call is made and
\* nothing is computed.
C4_ValidatedBeforeFetch ==
    /\ (InMain /\ Fetching) =>
          /\ args.games.some \in {5, 10}
          /\ args.stat.some \in StatCols
    /\ (InMain /\ predictor # None) => predictor.stat \in StatCols
    /\ (LastPrompt("games") /\ exc = None
          /\ (~ParseInt(line.some).ok \/ ParseInt(line.some).value \notin {5, 10})) =>
          /\ pc = "PromptGames"
          /\ ~Said("stat") /\ ~Called("PlayerGameLog")
    /\ (LastPrompt("stat") /\ ReadLine /\ Upper(Strip(line.some)) \notin StatCols) =>
          /\ pc \in {"Except", "Done"}
          /\ exc # None /\ exc.type = "ValueError"
          /\ Cardinality({i \in 1..Len(prompts) : prompts[i] = "stat"}) = 1
          /\ ~Said("threshold") /\ ~Called("PlayerGameLog")
          /\ recent = None /\ predictor = None

\* A refused game count was typed, then an accepted one, and the fetch began.
C4_Witness ==
    /\ pc = "Predict"
    /\ tries > 0
    /\ Kinds("EnterFiveOrTen") # {}
    /\ args.games = Some(10)
    /\ args.stat = Some(AST)

\* ------------------------------------------------------------------------ C5
\* C5: get_recent_games on a player that is not active raises the ValueError
\* "is not an active player" and makes no game-log call, whatever the season
\* and the game count; and main() makes a game-log call for active players only.
C5_InactiveNeverFetched ==
    /\ (call.op = "get_recent_games" /\ ~call.self.is_active) =>
          /\ ~call.result.called
          /\ ~call.result.res.ok
          /\ call.result.res.exc.type = "ValueError"
          /\ call.result.res.exc.msg = "is not an active player"
    /\ (InMain /\ (Called("PlayerGameLog") \/ pc = "FetchRecent")) => player.is_active

C5_Witness ==
    /\ call.op = "get_recent_games"
    /\ ~call.self.is_active
    /\ call.season = "2023-24" /\ call.num_games = 5
    /\ ~call.resp.fail /\ Len(call.resp.df.rows) = 3

\* ------------------------------------------------------------------------ C6
Coerced(cell) == IF cell.numeric THEN Num(cell.v) ELSE NaN

\* C6: for an active player and a count N of 5 or 10, get_recent_games returns
\* the first min(N, available) rows of the game log, in the log's order; fewer
\* rows than N is no error, an empty log is one, and a returned table has
\* between 1 and N rows.
C6_FirstRows ==
    /\ (call.op = "get_recent_games" /\ call.self.is_active /\ ~call.resp.fail
          /\ RecentCols \subseteq call.resp.df.cols) =>
          LET rows == call.resp.df.rows
              r == call.result.res
              k == Min(call.num_games, Len(rows))
          IN  IF rows = <<>> THEN ~r.ok
              ELSE /\ r.ok
                   /\ Len(r.value.rows) = k
                   /\ \A i \in 1..k :
                        /\ r.value.rows[i][GAME_DATE] = rows[i][GAME_DATE]
                        /\ \A c \in StatCols : r.value.rows[i][c] = Coerced(rows[i][c])
    /\ (call.op = "get_recent_games" /\ call.result.res.ok) =>
          /\ Len(call.result.res.value.rows) >= 1
          /\ Len(call.result.res.value.rows) <= call.num_games
    /\ (InMain /\ recent # None) =>
          Len(recent.rows) >= 1 /\ Len(recent.rows) <= args.games.some

\* Eleven games in the log and ten asked for.
C6_Witness ==
    /\ call.op = "get_recent_games"
    /\ call.self.is_active /\ call.num_games = 10
    /\ Len(call.resp.df.rows) = 11
    /\ call.result.res.ok
    /\ Len(call.result.res.value.rows) = 10

\* ------------------------------------------------------------------------ C7
\* C7: with a threshold and a table that is not empty, compute returns the
\* number of rows whose value is at least the threshold over the number of all
\* rows, missing values included, to the nearest hundredth; the result lies in
\* [0, 1] and is the same for the rows in the opposite order.
C7_ThresholdRatio ==
    /\ (call.op = "compute" /\ call.self.threshold # None
          /\ call.self.stat \in call.self.data.cols /\ call.self.data.rows # <<>>) =>
          LET rows == call.self.data.rows
              t == call.self.threshold
              n == Len(rows)
              hits == {i \in 1..n : /\ ~rows[i][call.self.stat].nan
                                    /\ ~t.nan
                                    /\ rows[i][call.self.stat].v >= t.v}
              r == call.result
          IN  /\ r.ok /\ ~r.value.nan
              /\ r.value.v >= 0 /\ r.value.v <= 100
              /\ 2 * Abs(r.value.v * n - 100 * Cardinality(hits)) <= n
              /\ compute(StatFormula(Reversed(call.self.data), call.self.stat, t)) = r
    /\ InMain => \A i \in Kinds("Prediction") :
          ~out[i].pct.nan /\ out[i].pct.v >= 0 /\ out[i].pct.v <= 100

\* Eight rows, one at the threshold, one missing: 1/8 is 0.12.
C7_Witness ==
    /\ call.op = "compute"
    /\ call.self.threshold = Num(20) /\ call.self.stat = PTS
    /\ Len(call.self.data.rows) = 8
    /\ \E i \in 1..8 : call.self.data.rows[i][PTS] = Num(20)
    /\ \E i \in 1..8 : call.self.data.rows[i][PTS].nan
    /\ call.result.ok /\ call.result.value = Num(12)

\* ------------------------------------------------------------------------ C8
\* C8: compute with a threshold on a table of no rows that has the stat column
\* fails with an error and returns no value.
C8_EmptyTableIsError ==
    (call.op = "compute" /\ call.self.threshold # None
       /\ call.self.stat \in call.self.data.cols /\ call.self.data.rows = <<>>) =>
       ~call.result.ok

\* ------------------------------------------------------------------------ C9
Matches(c) == {i \in 1..Len(c.resp.players) :
                  Lower(c.resp.players[i].full_name) = Lower(Title(c.input))}

\* C9: lookup_player_id returns the id of the directory entry whose full name
\* equals the title-cased input case-insensitively; with no such entry it fails
\* with the not-found error (ValueError), a kind of its own, and only a failure
\* of the directory call itself becomes the generic RuntimeError.
C9_NotFoundIsDistinct ==
    call.op = "lookup_player_id" =>
       /\ (~call.resp.fail /\ Matches(call) # {}) =>
             /\ call.result.ok
             /\ \E i \in Matches(call) :
                   /\ call.result.value = call.resp.players[i].id
                   /\ \A j \in Matches(call) : i <= j
       /\ (~call.resp.fail /\ Matches(call) = {}) =>
             ~call.result.ok /\ call.result.exc.type = "ValueError"
       /\ call.resp.fail =>
             ~call.result.ok /\ call.result.exc.type = "RuntimeError"

\* ----------------------------------------------------------------------- C10
\* C10: without a threshold, when every value of the stat column is missing,
\* the run does not end with an Average line that carries the undefined value.
C10_NoUndefinedAverage ==
    InMain => \A i \in Kinds("Average") : ~out[i].value.nan

====
